---------------------------- MODULE Spec2Model ----------------------------
(***************************************************************************)
(* Car Lease Mileage Tracker (src/lease_tracker_app.py).                   *)
(*                                                                         *)
(* The program is a Streamlit page: every widget interaction reruns        *)
(* main(), which rebuilds the page from the widget values; the Calculate   *)
(* button additionally runs calculate_and_display.  The only state kept    *)
(* between runs is the widget values and st.session_state.                 *)
(*                                                                         *)
(* Python's int / int, float * int and int - float are IEEE-754 binary64   *)
(* operations, each correctly rounded (round half to even).  They are      *)
(* modelled bit-exactly: a float is a sign, an odd integer significand of  *)
(* at most 53 bits and a binary exponent; significands are arbitrary       *)
(* precision naturals held as little-endian sequences of 13-bit limbs so   *)
(* that every intermediate stays inside TLC's 32-bit integers.             *)
(***************************************************************************)
EXTENDS Integers, Sequences, FiniteSets

(***************************************************************************)
(* Arbitrary precision naturals: little-endian limbs, no high zero limb.   *)
(***************************************************************************)
LimbBits == 13

Base == 2 ^ LimbBits

RECURSIVE Pow2(_)
Pow2(n) == IF n = 0 THEN 1 ELSE 2 * Pow2(n - 1)

RECURSIVE BitLen(_)
BitLen(n) == IF n = 0 THEN 0 ELSE 1 + BitLen(n \div 2)

RECURSIVE BigNorm(_)
BigNorm(a) ==
    IF a = <<>> THEN a
    ELSE IF a[Len(a)] = 0 THEN BigNorm(SubSeq(a, 1, Len(a) - 1))
    ELSE a

RECURSIVE BigFromNat(_)
BigFromNat(n) == IF n = 0 THEN <<>> ELSE <<n % Base>> \o BigFromNat(n \div Base)

Limb(a, i) == IF i <= Len(a) THEN a[i] ELSE 0

RECURSIVE BigAddFrom(_, _, _, _)
BigAddFrom(a, b, i, carry) ==
    IF i > Len(a) /\ i > Len(b)
    THEN IF carry = 0 THEN <<>> ELSE <<carry>>
    ELSE LET t == Limb(a, i) + Limb(b, i) + carry
         IN  <<t % Base>> \o BigAddFrom(a, b, i + 1, t \div Base)

BigAdd(a, b) == BigAddFrom(a, b, 1, 0)

\* a - b for a >= b
RECURSIVE BigSubFrom(_, _, _, _)
BigSubFrom(a, b, i, borrow) ==
    IF i > Len(a) THEN <<>>
    ELSE LET t == a[i] - Limb(b, i) - borrow
         IN  IF t < 0
             THEN <<t + Base>> \o BigSubFrom(a, b, i + 1, 1)
             ELSE <<t>> \o BigSubFrom(a, b, i + 1, 0)

BigSub(a, b) == BigNorm(BigSubFrom(a, b, 1, 0))

\* -1, 0, 1 as a < b, a = b, a > b (both normalised)
RECURSIVE BigCmpFrom(_, _, _)
BigCmpFrom(a, b, i) ==
    IF i = 0 THEN 0
    ELSE IF a[i] > b[i] THEN 1
    ELSE IF a[i] < b[i] THEN -1
    ELSE BigCmpFrom(a, b, i - 1)

BigCmp(a, b) ==
    IF Len(a) > Len(b) THEN 1
    ELSE IF Len(a) < Len(b) THEN -1
    ELSE BigCmpFrom(a, b, Len(a))

\* a * k for 0 <= k < 2^17
RECURSIVE BigMulSmallFrom(_, _, _, _)
BigMulSmallFrom(a, k, i, carry) ==
    IF i > Len(a)
    THEN BigFromNat(carry)
    ELSE LET t == a[i] * k + carry
         IN  <<t % Base>> \o BigMulSmallFrom(a, k, i + 1, t \div Base)

BigMulSmall(a, k) == IF k = 0 THEN <<>> ELSE BigMulSmallFrom(a, k, 1, 0)

RECURSIVE ZeroLimbs(_)
ZeroLimbs(n) == IF n = 0 THEN <<>> ELSE <<0>> \o ZeroLimbs(n - 1)

BigShlLimbs(a, n) == IF a = <<>> THEN a ELSE ZeroLimbs(n) \o a

RECURSIVE BigMulFrom(_, _, _)
BigMulFrom(a, b, i) ==
    IF i > Len(b) THEN <<>>
    ELSE BigAdd(BigShlLimbs(BigMulSmall(a, b[i]), i - 1), BigMulFrom(a, b, i + 1))

BigMul(a, b) == BigMulFrom(a, b, 1)

\* <<quotient limbs (high zero limbs kept), remainder>> of a[1..i] by k, 0 < k < 2^17
RECURSIVE BigDivSmallFrom(_, _, _, _)
BigDivSmallFrom(a, k, i, rem) ==
    IF i = 0 THEN <<<<>>, rem>>
    ELSE LET t    == rem * Base + a[i]
             rest == BigDivSmallFrom(a, k, i - 1, t % k)
         IN  <<rest[1] \o <<t \div k>>, rest[2]>>

NormQuotient(qr) == <<BigNorm(qr[1]), qr[2]>>

BigDivSmall(a, k) == NormQuotient(BigDivSmallFrom(a, k, Len(a), 0))

BigShl(a, n) == BigShlLimbs(BigMulSmall(a, Pow2(n % LimbBits)), n \div LimbBits)

BigShr(a, n) ==
    LET drop == n \div LimbBits
    IN  IF drop >= Len(a) THEN <<>>
        ELSE BigDivSmall(SubSeq(a, drop + 1, Len(a)), Pow2(n % LimbBits))[1]

BigBitLen(a) ==
    IF a = <<>> THEN 0 ELSE LimbBits * (Len(a) - 1) + BitLen(a[Len(a)])

BigOdd(a) == a # <<>> /\ a[1] % 2 = 1

RECURSIVE TrailingZeros(_)
TrailingZeros(n) == IF n % 2 = 1 THEN 0 ELSE 1 + TrailingZeros(n \div 2)

RECURSIVE BigTrailingZeros(_, _)
BigTrailingZeros(a, i) ==
    IF a[i] = 0 THEN LimbBits + BigTrailingZeros(a, i + 1) ELSE TrailingZeros(a[i])

(***************************************************************************)
(* IEEE-754 binary64 values in the normal range: s * m * 2^e with s the    *)
(* sign (-1, 0, 1), m odd with at most Precision bits (m = <<>> for zero). *)
(***************************************************************************)
Precision == 53

GuardBits == 72

FZero == [s |-> 0, m |-> <<>>, e |-> 0]

FStrip(s, m, e, tz) == [s |-> s, m |-> BigShr(m, tz), e |-> e + tz]

FCanon(s, m, e) ==
    IF m = <<>> \/ s = 0 THEN FZero ELSE FStrip(s, m, e, BigTrailingZeros(m, 1))

\* round half to even: c compares the dropped bits with half a unit
RoundsUp(c, sticky, odd) == c > 0 \/ (c = 0 /\ (sticky \/ odd))

RoundedQuotient(m, sticky, sh, q) ==
    IF RoundsUp(BigCmp(BigSub(m, BigShl(q, sh)), BigShl(<<1>>, sh - 1)), sticky, BigOdd(q))
    THEN BigAdd(q, <<1>>)
    ELSE q

Rounded(m, sticky, sh) == RoundedQuotient(m, sticky, sh, BigShr(m, sh))

FRoundBy(s, m, e, sticky, sh) ==
    FCanon(s, IF sh <= 0 THEN m ELSE Rounded(m, sticky, sh), IF sh <= 0 THEN e ELSE e + sh)

\* s * m * 2^e (plus a nonzero fraction of 2^e when sticky), rounded to Precision bits
FRound(s, m, e, sticky) == FRoundBy(s, m, e, sticky, BigBitLen(m) - Precision)

Sign(n) == IF n > 0 THEN 1 ELSE IF n < 0 THEN -1 ELSE 0

Abs(n) == IF n < 0 THEN -n ELSE n

Min(a, b) == IF a < b THEN a ELSE b

FFromInt(n) == FCanon(Sign(n), BigFromNat(Abs(n)), 0)

FNeg(x) == [x EXCEPT !.s = -x.s]

\* xs * xm * 2^e + ys * ym * 2^e, c comparing xm with ym
FAddCompared(xs, xm, ys, ym, e, c) ==
    FRound(IF xs = ys \/ c > 0 THEN xs ELSE IF c = 0 THEN 0 ELSE ys,
           IF xs = ys THEN BigAdd(xm, ym)
           ELSE IF c >= 0 THEN BigSub(xm, ym) ELSE BigSub(ym, xm),
           e, FALSE)

FAddAligned(xs, xm, ys, ym, e) == FAddCompared(xs, xm, ys, ym, e, BigCmp(xm, ym))

FAddAt(x, y, e) == FAddAligned(x.s, BigShl(x.m, x.e - e), y.s, BigShl(y.m, y.e - e), e)

FAdd(x, y) ==
    IF x.s = 0 THEN y
    ELSE IF y.s = 0 THEN x
    ELSE FAddAt(x, y, Min(x.e, y.e))

FSub(x, y) == FAdd(x, FNeg(y))

FMul(x, y) ==
    IF x.s = 0 \/ y.s = 0 THEN FZero
    ELSE FRound(x.s * y.s, BigMul(x.m, y.m), x.e + y.e, FALSE)

FDivRound(s, e, qr) == FRound(s, qr[1], e, qr[2] # 0)

\* x / k for an integer 0 < k < 2^17
FDivInt(x, k) ==
    IF x.s = 0 THEN FZero
    ELSE FDivRound(x.s, x.e - GuardBits, BigDivSmall(BigShl(x.m, GuardBits), k))

\* x > y, x <= y: the sign of the exact difference
FGt(x, y) == FSub(x, y).s = 1

FLe(x, y) == ~FGt(x, y)

(***************************************************************************)
(* datetime: proleptic Gregorian ordinal plus second of the day.           *)
(***************************************************************************)
\* the four-year rule dropped
IsLeapCenturyOnly(y) == y % 400 = 0

IsLeap(y) == y % 4 = 0 /\ (y % 100 # 0 \/ y % 400 = 0)

DaysInMonth(y, m) ==
    IF m = 2 THEN (IF IsLeap(y) THEN 29 ELSE 28)
    ELSE IF m \in {4, 6, 9, 11} THEN 30 ELSE 31

RECURSIVE DaysBeforeMonth(_, _)
DaysBeforeMonth(y, m) ==
    IF m = 1 THEN 0 ELSE DaysBeforeMonth(y, m - 1) + DaysInMonth(y, m - 1)

DaysBeforeYear(y) ==
    (y - 1) * 365 + (y - 1) \div 4 - (y - 1) \div 100 + (y - 1) \div 400

Ymd2Ord(y, m, d) == DaysBeforeYear(y) + DaysBeforeMonth(y, m) + d

ValidDate(y, m, d) == d <= DaysInMonth(y, m)

DateTime(y, m, d, sec) == [year |-> y, month |-> m, day |-> d, second |-> sec]

DtGt(a, b) ==
    LET oa == Ymd2Ord(a.year, a.month, a.day)
        ob == Ymd2Ord(b.year, b.month, b.day)
    IN  oa > ob \/ (oa = ob /\ a.second > b.second)

\* (a - b).days: timedelta normalises 0 <= seconds < 86400, so days is the floor
DeltaDays(a, b) ==
    LET oa == Ymd2Ord(a.year, a.month, a.day)
        ob == Ymd2Ord(b.year, b.month, b.day)
    IN  (oa - ob) + (IF a.second < b.second THEN -1 ELSE 0)

(***************************************************************************)
(* calculate_and_display: the numeric core, one operator per assignment.   *)
(***************************************************************************)
\* lease_start.replace(year=...) raises ValueError when the day does not exist
ReplaceYearRaises(lease_start, duration_years) ==
    ~ValidDate(lease_start.year + duration_years, lease_start.month, lease_start.day)

lease_end(lease_start, duration_years) ==
    [lease_start EXCEPT !.year = lease_start.year + duration_years]

FutureLease(lease_start, today) == DtGt(lease_start, today)

total_allowed_miles(annual_miles, duration_years) == annual_miles * duration_years

lease_duration_days(lease_start, duration_years) ==
    DeltaDays(lease_end(lease_start, duration_years), lease_start)

days_elapsed(today, lease_start) == DeltaDays(today, lease_start)

NotYetStarted(elapsed) == elapsed <= 0

daily_allowed_miles(allowed, duration_days) == FDivInt(FFromInt(allowed), duration_days)

projected_miles_today(daily_allowed, elapsed) == FMul(daily_allowed, FFromInt(elapsed))

miles_difference(miles, projected_today) == FSub(FFromInt(miles), projected_today)

status(difference) == IF difference.s = 1 THEN "OVER" ELSE "UNDER"

daily_actual_rate(miles, elapsed) == FDivInt(FFromInt(miles), elapsed)

projected_end_miles(actual_rate, duration_days) == FMul(actual_rate, FFromInt(duration_days))

\* the difference without the clamp at zero
overage_miles_unclamped(projected_end, allowed) == FSub(projected_end, FFromInt(allowed))

\* max(0, d): the first argument is kept unless d > 0
Max0(d) == IF d.s = 1 THEN d ELSE FZero

\* the operands of the difference exchanged
overage_miles_swapped(projected_end, allowed) == Max0(FSub(FFromInt(allowed), projected_end))

overage_miles(projected_end, allowed) == Max0(FSub(projected_end, FFromInt(allowed)))

\* extra_price is held in hundredths; the widget delivers the nearest float
PriceFloat(cents) == FDivInt(FFromInt(cents), 100)

overage_fee(overage, cents) == FMul(overage, PriceFloat(cents))

\* 365.25 = 1461 / 4
annual_pace(actual_rate) == FMul(actual_rate, [s |-> 1, m |-> <<1461>>, e |-> -2])

max_daily_rate(allowed, miles, remaining_days) ==
    IF remaining_days > 0 THEN FDivInt(FFromInt(allowed - miles), remaining_days)
    ELSE FZero

reduction_needed(actual_rate, max_rate) == FSub(actual_rate, max_rate)

extra_miles_available(allowed, projected_end) == FSub(FFromInt(allowed), projected_end)

extra_daily(available, remaining_days) ==
    IF remaining_days > 0 THEN FDivInt(available, remaining_days) ELSE FZero

\* create_chart: the series' end points and the end marker's colour (the
\* allowance series holds one point per day; its last point is kept)
create_chart(allowed, miles, projected_end, projected_today, daily_allowed, duration_days) ==
    [allowance_points |-> duration_days + 1,
     allowance_last   |-> FMul(FFromInt(duration_days), daily_allowed),
     actual           |-> <<FZero, FFromInt(miles)>>,
     projected        |-> <<FFromInt(miles), projected_end>>,
     should_be        |-> projected_today,
     end_marker       |-> IF FGt(projected_end, FFromInt(allowed)) THEN "orange" ELSE "green",
     limit_line       |-> allowed]

NoResult == [today |-> "none"]

AllSections == {"metrics", "alert", "chart", "summary", "recommendations"}

\* lines 126-149: the recommendation of the branch taken
Recommended(allowed, miles, remaining, rate, proj_end, over, max_rate, available) ==
    [remaining_days   |-> remaining,
     recommendation   |-> IF over THEN "reduce" ELSE "room",
     recommended_rate |-> IF over THEN max_rate ELSE extra_daily(available, remaining),
     adjustment       |-> IF over THEN reduction_needed(rate, max_rate) ELSE available]

\* lines 68-149: what the page shows, from the values computed at lines 49-66
Display(in, allowance, should_be, diff, rate, proj_end, overage, fee) ==
    [today                 |-> in.today,
     total_allowed_miles   |-> in.allowed,
     lease_duration_days   |-> in.duration,
     days_elapsed          |-> in.elapsed,
     daily_allowed_miles   |-> allowance,
     projected_miles_today |-> should_be,
     miles_difference      |-> diff,
     status                |-> status(diff),
     daily_actual_rate     |-> rate,
     projected_end_miles   |-> proj_end,
     overage_miles         |-> overage,
     overage_fee           |-> fee,
     annual_pace           |-> annual_pace(rate),
     col4                  |-> IF overage.s = 1 THEN "Projected Overage" ELSE "On Track",
     alert                 |-> IF overage.s = 1 THEN "warning" ELSE "good news",
     chart                 |-> create_chart(in.allowed, in.miles, proj_end, should_be,
                                            allowance, in.duration),
     recommended           |-> Recommended(in.allowed, in.miles, in.duration - in.elapsed,
                                           rate, proj_end, overage.s = 1,
                                           max_daily_rate(in.allowed, in.miles,
                                                          in.duration - in.elapsed),
                                           extra_miles_available(in.allowed, proj_end))]

\* lines 59 and 66
WithOverage(in, allowance, should_be, rate, proj_end, overage) ==
    Display(in, allowance, should_be, miles_difference(in.miles, should_be), rate,
            proj_end, overage, overage_fee(overage, in.cents))

\* line 65
WithProjection(in, allowance, should_be, rate, proj_end) ==
    WithOverage(in, allowance, should_be, rate, proj_end,
                overage_miles(proj_end, in.allowed))

\* lines 58 and 64
WithRates(in, allowance, rate) ==
    WithProjection(in, allowance, projected_miles_today(allowance, in.elapsed), rate,
                   projected_end_miles(rate, in.duration))

\* lines 57 and 63
WithDays(in) ==
    WithRates(in, daily_allowed_miles(in.allowed, in.duration),
              daily_actual_rate(in.miles, in.elapsed))

\* lines 49-149: everything computed and displayed once validation has passed,
\* each assignment evaluated once and handed on
Projection(lease_start, duration_years, annual_miles, miles, cents, today) ==
    WithDays([today    |-> today,
              allowed  |-> total_allowed_miles(annual_miles, duration_years),
              duration |-> lease_duration_days(lease_start, duration_years),
              elapsed  |-> days_elapsed(today, lease_start),
              miles    |-> miles,
              cents    |-> cents])

Failed(kind) == [error |-> kind, passed |-> FALSE, shown |-> {}, result |-> NoResult]

calculate_and_display(lease_start, duration_years, annual_miles, miles, cents, today) ==
    IF ReplaceYearRaises(lease_start, duration_years) THEN Failed("exception")
    ELSE IF FutureLease(lease_start, today) THEN Failed("future")
    ELSE IF NotYetStarted(days_elapsed(today, lease_start)) THEN Failed("not_started")
    ELSE [error  |-> "none", passed |-> TRUE, shown |-> AllSections,
          result |-> Projection(lease_start, duration_years, annual_miles, miles,
                                cents, today)]

\* the flag set above the days_elapsed check
SessionAfterEarly(was_calculated, calc) ==
    was_calculated \/ calc.passed \/ calc.error = "not_started"

\* st.session_state.calculated = True (line 69) is reached only past validation
SessionAfter(was_calculated, calc) == was_calculated \/ calc.passed

ShowPlaceholder(is_calculated) == ~is_calculated

(***************************************************************************)
(* main: one run of the script.  datetime(year, month, day) at line 23 is  *)
(* outside every try: a day the month does not have aborts the run.        *)
(***************************************************************************)
NotClicked == [error |-> "none", passed |-> FALSE, shown |-> {}, result |-> NoResult]

PageOf(clicked, today, was_calculated, calc) ==
    [page |-> [exception |-> "none", clicked |-> clicked,
               now |-> IF clicked THEN today ELSE NoResult.today,
               calc |-> calc,
               placeholder |-> ShowPlaceholder(SessionAfter(was_calculated, calc))],
     calculated |-> SessionAfter(was_calculated, calc)]

main(month, day, year, duration, annual, miles, cents, was_calculated, clicked, today) ==
    IF ~ValidDate(year, month, day)
    THEN [page |-> [exception |-> "ValueError", clicked |-> FALSE, now |-> NoResult.today,
                    calc |-> NotClicked, placeholder |-> FALSE],
          calculated |-> was_calculated]
    ELSE PageOf(clicked, today, was_calculated,
                IF clicked
                THEN calculate_and_display(DateTime(year, month, day, 0), duration,
                                           annual, miles, cents, today)
                ELSE NotClicked)

(***************************************************************************)
(* Explored inputs.  The widgets accept more (months 1..12, days 1..31,    *)
(* years 2020..2030, any mileage, any price); the values below are the     *)
(* ones the analysed cases need: a leap-day start, a day February lacks,   *)
(* readings exactly on the allowance line, the last day of the lease.      *)
(***************************************************************************)
MaxStartYear == 2025

MaxMilesStep == 2

Months == {2, 8}

Days == {4, 29}

Years == 2024..MaxStartYear

DurationOptions == {2, 3, 4, 5}

AllowanceOptions == {10000, 12000, 15000, 18000}

Miles == {0, 1060, 2400, 15000} \cup {20000 * k : k \in 1..MaxMilesStep}

Cents == {0, 25, 26}

\* datetime.now() at the moment of a click
Todays ==
    {DateTime(2024, 2, 28, 43200), DateTime(2025, 8, 3, 86399),
     DateTime(2025, 8, 4, 0),      DateTime(2025, 8, 4, 86399),
     DateTime(2025, 8, 10, 43200), DateTime(2025, 10, 16, 1),
     DateTime(2026, 8, 4, 43200),  DateTime(2027, 8, 4, 43200)}

\* the smaller sets a whole session is explored over
SessionDurations == {2, 3}

SessionAllowances == {10000, 15000}

SessionMiles == {1060, 20000 * MaxMilesStep}

SessionCents == {0, 25}

SessionTodays ==
    {DateTime(2025, 8, 3, 86399), DateTime(2025, 8, 4, 86399),
     DateTime(2025, 8, 10, 43200), DateTime(2027, 8, 4, 43200)}

VARIABLES start_month, start_day, start_year, duration_years, annual_miles,
          current_miles, extra_price, calculated, page

widgets == <<start_month, start_day, start_year, duration_years, annual_miles,
             current_miles, extra_price>>

vars == <<start_month, start_day, start_year, duration_years, annual_miles,
          current_miles, extra_price, calculated, page>>

\* the script runs on the new widget values and rebuilds the page
Shows(run) ==
    /\ page' = run.page
    /\ calculated' = run.calculated

Rerun(clicked, today) ==
    Shows(main(start_month', start_day', start_year', duration_years',
               annual_miles', current_miles', extra_price', calculated,
               clicked, today))

SelectMonth(v) ==
    /\ v # start_month
    /\ start_month' = v
    /\ UNCHANGED <<start_day, start_year, duration_years, annual_miles,
                   current_miles, extra_price>>
    /\ Rerun(FALSE, NoResult.today)

SelectDay(v) ==
    /\ v # start_day
    /\ start_day' = v
    /\ UNCHANGED <<start_month, start_year, duration_years, annual_miles,
                   current_miles, extra_price>>
    /\ Rerun(FALSE, NoResult.today)

SetYear(v) ==
    /\ v # start_year
    /\ start_year' = v
    /\ UNCHANGED <<start_month, start_day, duration_years, annual_miles,
                   current_miles, extra_price>>
    /\ Rerun(FALSE, NoResult.today)

SelectDuration(v) ==
    /\ v # duration_years
    /\ duration_years' = v
    /\ UNCHANGED <<start_month, start_day, start_year, annual_miles,
                   current_miles, extra_price>>
    /\ Rerun(FALSE, NoResult.today)

SelectAllowance(v) ==
    /\ v # annual_miles
    /\ annual_miles' = v
    /\ UNCHANGED <<start_month, start_day, start_year, duration_years,
                   current_miles, extra_price>>
    /\ Rerun(FALSE, NoResult.today)

SetMiles(v) ==
    /\ v # current_miles
    /\ current_miles' = v
    /\ UNCHANGED <<start_month, start_day, start_year, duration_years,
                   annual_miles, extra_price>>
    /\ Rerun(FALSE, NoResult.today)

SetPrice(v) ==
    /\ v # extra_price
    /\ extra_price' = v
    /\ UNCHANGED <<start_month, start_day, start_year, duration_years,
                   annual_miles, current_miles>>
    /\ Rerun(FALSE, NoResult.today)

ClickCalculate(today) ==
    /\ UNCHANGED widgets
    /\ Rerun(TRUE, today)

\* the first run of a fresh session: the widgets' defaults, no click
Init ==
    /\ start_month = 8
    /\ start_day = 4
    /\ start_year = 2025
    /\ duration_years = 3
    /\ annual_miles = 10000
    /\ current_miles = 1060
    /\ extra_price = 25
    /\ calculated = FALSE
    /\ page = main(8, 4, 2025, 3, 10000, 1060, 25, FALSE, FALSE, NoResult.today).page

Next ==
    \/ \E v \in Months : SelectMonth(v)
    \/ \E v \in Days : SelectDay(v)
    \/ \E v \in Years : SetYear(v)
    \/ \E v \in SessionDurations : SelectDuration(v)
    \/ \E v \in SessionAllowances : SelectAllowance(v)
    \/ \E v \in SessionMiles : SetMiles(v)
    \/ \E v \in SessionCents : SetPrice(v)
    \/ \E t \in SessionTodays : ClickCalculate(t)

Spec == Init /\ [][Next]_vars

(***************************************************************************)
(* The calculation as a function of its inputs: any widget values, not yet *)
(* calculated, then one click at any of the explored moments.              *)
(***************************************************************************)
InitCalc ==
    /\ start_month \in Months
    /\ start_day \in Days
    /\ start_year \in Years
    /\ duration_years \in DurationOptions
    /\ annual_miles \in AllowanceOptions
    /\ current_miles \in Miles
    /\ extra_price \in Cents
    /\ calculated = FALSE
    /\ page = main(start_month, start_day, start_year, duration_years, annual_miles,
                   current_miles, extra_price, FALSE, FALSE, NoResult.today).page

FirstClick(today) ==
    /\ ~page.clicked
    /\ ClickCalculate(today)

NextCalc == \E t \in Todays : FirstClick(t)

SpecCalc == InitCalc /\ [][NextCalc]_vars

(***************************************************************************)
(* Properties.  Result, Passed and the day counts below read the page of   *)
(* the last run; StartOrd and NowOrd are calendar days, so their           *)
(* difference is the claim's "whole days from start_date to as_of".        *)
(***************************************************************************)
Result == page.calc.result

Passed == page.clicked /\ page.calc.passed

StartOrd == Ymd2Ord(start_year, start_month, start_day)

NowOrd == Ymd2Ord(page.now.year, page.now.month, page.now.day)

Allowed == annual_miles * duration_years

IsNumber(v) == v.s \in {-1, 0, 1}

\* C1: a calculation whose start_date is one or more days after as_of fails
\* with the future-lease error, one whose start_date is as_of's calendar day
\* fails with the not-yet-started error, and one whose start_date is at least
\* one whole day before as_of fails with neither.
C1_ValidationByDateOrder ==
    page.clicked =>
        /\ StartOrd > NowOrd => page.calc.error = "future"
        /\ StartOrd = NowOrd => page.calc.error = "not_started"
        /\ StartOrd < NowOrd => page.calc.error \notin {"future", "not_started"}

\* C2: a calculation with start_date > as_of or days_elapsed <= 0 renders no
\* section and no result and leaves the 'calculated' flag as it was; every
\* page that renders a section has days_elapsed >= 1 and
\* total_duration_days >= 1, and divides by remaining_days only when it is
\* positive.
C2_FailureStep ==
    (page'.clicked /\ NowOrd' - StartOrd' <= 0) =>
        /\ page'.calc.shown = {}
        /\ page'.calc.result = NoResult
        /\ page'.calc.error # "none"
        /\ calculated' = calculated

C2_Rendered ==
    page.calc.shown # {} =>
        /\ page.calc.shown = AllSections
        /\ Result.days_elapsed >= 1
        /\ Result.lease_duration_days >= 1
        /\ NowOrd - StartOrd >= 1
        /\ Result.recommended.remaining_days <= 0 => Result.recommended.recommended_rate = FZero

C2_FailedValidationIsTerminal == [](C2_Rendered) /\ [][C2_FailureStep]_vars

C2_Witness ==
    /\ page.clicked
    /\ NowOrd - StartOrd <= 0
    /\ page.calc.error = "not_started"
    /\ calculated

\* C3: when remaining_days = 0 (the run is made on the lease's end date) the
\* calculation completes without an error and the recommended daily rate is
\* absent, a value distinct from every numeric rate, 0 included, in the
\* overage branch and in the no-overage branch.
C3_RateAbsentAtLeaseEnd ==
    (Passed /\ Result.recommended.remaining_days = 0) =>
        /\ page.calc.error = "none"
        /\ ~IsNumber(Result.recommended.recommended_rate)

IsScenario ==
    /\ start_year = 2025 /\ start_month = 8 /\ start_day = 4
    /\ duration_years = 3 /\ annual_miles = 10000
    /\ current_miles = 1060 /\ extra_price = 25
    /\ page.clicked
    /\ page.now.year = 2025 /\ page.now.month = 8 /\ page.now.day = 10

ScenarioOutcome(duration_days) ==
    /\ Passed
    /\ Result.days_elapsed = 6
    /\ Result.lease_duration_days = duration_days
    /\ Result.status = "OVER"
    /\ Result.projected_end_miles = FDivInt(FFromInt(1060 * duration_days), 6)
    /\ Result.overage_miles = FSub(Result.projected_end_miles, FFromInt(30000))
    /\ Result.overage_miles.s = 1

\* C4 as amended: for the scenario inputs days_elapsed = 6 and
\* total_duration_days = 1096 (2025-08-04 to 2028-08-04 spans 29 Feb 2028),
\* status = OVER, projected_end_miles = 1060 * 1096 / 6 and
\* overage_miles = projected_end_miles - 30000 > 0.
C4_Scenario1096 == IsScenario => ScenarioOutcome(1096)

C4_Witness == IsScenario /\ Passed /\ Result.lease_duration_days = 1096

\* C4 as stated: the same with total_duration_days = 1095.
C4_Scenario1095 == IsScenario => ScenarioOutcome(1095)

\* C5: status is OVER or UNDER, and OVER exactly when current_miles exceeds
\* total_allowed_miles * days_elapsed / total_duration_days; a reading exactly
\* on that value is UNDER.
C5_StatusIffAboveExpected ==
    Passed =>
        /\ Result.status \in {"OVER", "UNDER"}
        /\ Result.status = "OVER" <=>
               current_miles * Result.lease_duration_days > Allowed * Result.days_elapsed

\* C6: overage_miles >= 0; it is 0 whenever projected_end_miles <=
\* total_allowed_miles and projected_end_miles - total_allowed_miles otherwise;
\* overage_cost = overage_miles * extra_mile_price, so 0 when overage_miles is.
C6_OverageClampedAndPriced ==
    Passed =>
        LET limit == FFromInt(Allowed)
        IN  /\ Result.overage_miles.s >= 0
            /\ FLe(Result.projected_end_miles, limit) => Result.overage_miles = FZero
            /\ FGt(Result.projected_end_miles, limit) =>
                   Result.overage_miles = FSub(Result.projected_end_miles, limit)
            /\ Result.overage_fee = FMul(Result.overage_miles, PriceFloat(extra_price))
            /\ Result.overage_miles = FZero => Result.overage_fee = FZero
            /\ Result.overage_fee.s >= 0

C6_Witness ==
    /\ Passed
    /\ Result.overage_miles.s = 1
    /\ Result.overage_fee.s = 1
    /\ extra_price = 26

\* the projection of the page's calculation with another odometer reading
ProjectedEndWith(miles) ==
    projected_end_miles(daily_actual_rate(miles, Result.days_elapsed),
                        Result.lease_duration_days)

OverageWith(miles) == overage_miles(ProjectedEndWith(miles), Allowed)

\* C7: of two validated calculations that differ only in current_miles, the
\* one with the larger reading has projected_end_miles, overage_miles and
\* overage_cost each at least those of the other.
C7_MonotoneInMiles ==
    Passed =>
        \A more \in Miles :
            more >= current_miles =>
                /\ FLe(Result.projected_end_miles, ProjectedEndWith(more))
                /\ FLe(Result.overage_miles, OverageWith(more))
                /\ FLe(Result.overage_fee, overage_fee(OverageWith(more), extra_price))

C7_Witness ==
    /\ Passed
    /\ Result.overage_miles.s = 1
    /\ extra_price > 0
    /\ \E more \in Miles :
           /\ more > current_miles
           /\ FGt(OverageWith(more), Result.overage_miles)
           /\ FGt(overage_fee(OverageWith(more), extra_price), Result.overage_fee)

\* equality of computed miles up to rounding: within 2^-20 of a mile
Near(x, y) ==
    LET d == FSub(x, y)
    IN  FLe([d EXCEPT !.s = Abs(d.s)], [s |-> 1, m |-> <<1>>, e |-> -20])

C8_FinishesAtLimit ==
    LET r    == Result.recommended.recommended_rate
        days == FFromInt(Result.recommended.remaining_days)
    IN  IF Result.overage_miles.s = 1
        THEN Near(FAdd(FFromInt(current_miles), FMul(r, days)), FFromInt(Allowed))
        ELSE /\ r.s >= 0
             /\ Near(FAdd(FFromInt(current_miles),
                          FMul(FAdd(Result.daily_actual_rate, r), days)),
                     FFromInt(Allowed))

\* C8: with remaining_days > 0, in the overage branch the recommended rate r
\* gives current_miles + r * remaining_days = total_allowed_miles and the
\* reported reduction daily_actual_rate - r is strictly positive; otherwise the
\* slack e is >= 0 and current_miles + (daily_actual_rate + e) *
\* remaining_days = total_allowed_miles (equalities up to rounding).
C8_RateFinishesAtLimit ==
    (Passed /\ Result.recommended.remaining_days > 0) =>
        /\ C8_FinishesAtLimit
        /\ Result.overage_miles.s = 1 => Result.recommended.adjustment.s = 1

\* C9: the placeholder is shown at the end of a run exactly when no
\* calculation of the session has passed validation so far (the 'calculated'
\* flag, set only by a passing calculation and never cleared, records that).
C9_PlaceholderIffNeverCalculated == page.placeholder <=> ~calculated

\* C10: status is OVER exactly when overage_miles > 0, exactly when the
\* chart's end marker has the over-the-limit colour; never UNDER with a
\* positive overage, never OVER with the 'On Track' metric.
C10_StatusAgreesWithProjection ==
    Passed =>
        /\ Result.status = "OVER" <=> Result.overage_miles.s = 1
        /\ Result.overage_miles.s = 1 <=> Result.chart.end_marker = "orange"
        /\ ~(Result.status = "UNDER" /\ Result.overage_miles.s = 1)
        /\ ~(Result.status = "OVER" /\ Result.col4 = "On Track")
=============================================================================
